---- MODULE Spec2Model ----
(***************************************************************************)
(* Verification model of two subsystems of spateo:                         *)
(*   - the gradient alignment refiner and its driver refine_alignment      *)
(*     (spateo/preprocessing/segmentation/align.py),                       *)
(*   - the slice stack assembler slice_alignment, its sampling variant     *)
(*     slice_alignment_sample and the pairwise aligners pairwise_align1    *)
(*     and pairwise_align2 (spateo/tools/three_D_reconstruction.py).       *)
(*                                                                         *)
(* Arrays are records [dtype, shape, px, ops]: px holds the pixels the     *)
(* array was created with (row-major) and ops the resampling operations    *)
(* applied to them since, kept symbolic.  A parameter tensor is the pair   *)
(* [init, steps]: the value it was initialised with and the number of      *)
(* optimizer updates applied to it since; training is deterministic, so    *)
(* this pair identifies the tensor's value.                                *)
(*                                                                         *)
(* Slices are objects of a heap, lists hold heap indices; features are in  *)
(* hundredths, coordinates are the sequence of operations applied to them. *)
(* The transport solver is the POT library: a plan is a matrix of whole    *)
(* units, and the solver moves it by half or whole steps towards extreme   *)
(* plans with the marginals it was given.                                  *)
(***************************************************************************)
EXTENDS Integers, Sequences, FiniteSets, TLC

\* ---------------------------------------------------------------- bounds
MaxEpochs == 2
MaxCalls == 2
MaxLayers == 2
MaxSlices == 4
MaxSampled == 2
MaxPoints == 2
MaxIter == 2

VARIABLES
    ctor,       \* frame of the running refiner constructor
    refiner,    \* the refiner object (its attributes)
    call,       \* frame of the running train() call
    ncalls,     \* train() calls started on the refiner so far
    ret,        \* value returned by the last get_params / forward / loss call
    exc,        \* exception that ended the last operation ("none" if none)
    adata,      \* the dataset handed to refine_alignment: layers and uns slot
    drv,        \* frame of the running refine_alignment call
    stack       \* frame of the running slice_alignment or pairwise_align call

vars == <<ctor, refiner, call, ncalls, ret, exc, adata, drv, stack>>

\* ---------------------------------------------------------------- arrays
Shapes == {<<1, 2>>, <<1, 3>>, <<2, 2>>}

Prod(s) == IF Len(s) = 2 THEN s[1] * s[2] ELSE s[1] * s[2] * s[3] * s[4]

\* every boolean 2D array of a shape in Shapes
BoolArrays ==
    UNION {{[dtype |-> "bool", shape |-> s, px |-> p, ops |-> <<>>] :
              p \in [1..Prod(s) -> BOOLEAN]} : s \in Shapes}

\* arrays of a non-boolean dtype
OtherArrays ==
    {[dtype |-> "float64", shape |-> s, px |-> [k \in 1..Prod(s) |-> k - 1], ops |-> <<>>] :
       s \in {<<1, 2>>, <<2, 2>>}}

\* the moving masks offered to the constructor: one boolean mask per shape
\* and the non-boolean arrays
MovingArrays ==
    {[dtype |-> "bool", shape |-> s, px |-> [k \in 1..Prod(s) |-> k = 1], ops |-> <<>>] :
       s \in Shapes} \cup OtherArrays

\* x[None][None]: two leading axes of length 1
Unsqueeze2(s) == <<1, 1>> \o s

\* tensor.squeeze(): every axis of length 1 is dropped
Squeeze(s) == SelectSeq(s, LAMBDA d : d # 1)

\* numpy/torch broadcasting of two shapes, aligned on the trailing axes
Broadcastable(s, t) ==
    \A k \in 1..(IF Len(s) < Len(t) THEN Len(s) ELSE Len(t)) :
        LET a == s[Len(s) - k + 1]
            b == t[Len(t) - k + 1]
        IN  a = b \/ a = 1 \/ b = 1

\* reference.sum() and (~reference).sum()
CountTrue(px) == Cardinality({k \in DOMAIN px : px[k]})

CountFalse(px) == Cardinality({k \in DOMAIN px : ~px[k]})

\* A weight is the exact quotient num/den, kept as the pair <<num, den>>.
\* np.where(reference, size / (2 * reference.sum()), size / (2 * (~reference).sum()))
WeightMapSwapped(reference) ==
    [k \in DOMAIN reference.px |->
        IF reference.px[k]
        THEN <<Len(reference.px), 2 * CountFalse(reference.px)>>
        ELSE <<Len(reference.px), 2 * CountTrue(reference.px)>>]

WeightMap(reference) ==
    [k \in DOMAIN reference.px |->
        IF reference.px[k]
        THEN <<Len(reference.px), 2 * CountTrue(reference.px)>>
        ELSE <<Len(reference.px), 2 * CountFalse(reference.px)>>]

\* ---------------------------------------------------------------- refiner
MODULES == {"rigid", "non-rigid"}

NoArray == [dtype |-> "none", shape |-> <<>>, px |-> <<>>, ops |-> <<>>]

NoParam == [init |-> "unset", steps |-> 0]

NoCtor == [pc |-> "none", cls |-> "none", reference |-> NoArray, to_align |-> NoArray,
           theta |-> "None", by |-> "none"]

\* attrs is the set of attributes the object has so far
NoRefiner ==
    [attrs |-> {}, cls |-> "none", reference |-> NoArray, to_align |-> NoArray,
     weight |-> <<>>, optimizer |-> "None", history |-> <<>>, hasLoss |-> FALSE,
     theta |-> NoParam, displacement |-> NoParam, src_points |-> 0]

NoCall == [pc |-> "none", n_epochs |-> 0, i |-> 0, pred |-> <<>>, predAt |-> 0, lossAt |-> 0,
           nForward |-> 0, nLoss |-> 0, nAppend |-> 0, nBackward |-> 0, nStep |-> 0,
           hist0 |-> 0, steps0 |-> 0, by |-> "none"]

NoRet == [type |-> "none", keys |-> {}, shared |-> FALSE, atReturn |-> NoParam]

\* nn.Parameter attributes of the module: what self.parameters() yields
ParametersNone(r) == r.attrs \cap {}

Parameters(r) == r.attrs \cap {"theta", "displacement"}

\* the learnable tensor of the refiner
Param(r) == IF r.cls = "rigid" THEN r.theta ELSE r.displacement


\* value of a parameter array handed out by get_params: an array made by
\* detach().numpy() shares the memory of the tensor it was made from
Value(v) == IF v.shared THEN Param(refiner) ELSE v.atReturn

\* raise e: the exception ends the running refine_alignment call, if any
Raise(e) ==
    /\ exc' = e
    /\ drv' = IF drv.pc \in {"off", "idle"} THEN drv ELSE [drv EXCEPT !.pc = "raised"]

\* AlignmentRefiner.__init__, line 21: the dtype test
DtypeRejectedReferenceOnly(reference, to_align) == reference.dtype # "bool"

DtypeRejected(reference, to_align) ==
    reference.dtype # "bool" \/ to_align.dtype # "bool"

\* module(reference, to_align, **kwargs): binding of the arguments.  theta is
\* a keyword of the rigid constructor only.
New(cls, reference, to_align, theta, by) ==
    /\ ctor.pc = "none"
    /\ IF cls = "non-rigid" /\ theta # "None"
       THEN /\ ctor' = [NoCtor EXCEPT !.pc = "raised", !.cls = cls, !.reference = reference,
                                      !.to_align = to_align, !.theta = theta, !.by = by]
            /\ Raise("TypeError")
       ELSE /\ ctor' = [pc |-> "check", cls |-> cls, reference |-> reference,
                        to_align |-> to_align, theta |-> theta, by |-> by]
            /\ UNCHANGED <<exc, drv>>
    /\ UNCHANGED <<refiner, call, ncalls, ret>>

\* a caller constructs a refiner directly
Construct ==
    /\ drv.pc = "off" /\ stack.pc = "off"
    /\ ctor.pc = "none"
    /\ \E cls \in MODULES, reference \in BoolArrays \cup OtherArrays,
          to_align \in MovingArrays, theta \in {"None", "supplied"} :
          New(cls, reference, to_align, theta, "caller")
    /\ UNCHANGED <<adata, stack>>

\* lines 21-22
InitCheck ==
    /\ ctor.pc = "check"
    /\ IF DtypeRejected(ctor.reference, ctor.to_align)
       THEN /\ ctor' = [ctor EXCEPT !.pc = "raised"]
            /\ Raise("PreprocessingError")
       ELSE /\ ctor' = [ctor EXCEPT !.pc = "base"]
            /\ UNCHANGED <<exc, drv>>
    /\ UNCHANGED <<refiner, call, ncalls, ret, adata, stack>>

\* lines 23-30
InitBase ==
    /\ ctor.pc = "base"
    /\ refiner' = [refiner EXCEPT
            !.attrs = {"reference", "to_align", "weight", "optimizer", "history"},
            !.cls = ctor.cls,
            !.reference = [ctor.reference EXCEPT !.dtype = "float32",
                                                 !.shape = Unsqueeze2(ctor.reference.shape)],
            !.to_align = [ctor.to_align EXCEPT !.dtype = "float32",
                                               !.shape = Unsqueeze2(ctor.to_align.shape)],
            !.weight = WeightMap(ctor.reference),
            !.optimizer = "None",
            !.history = <<>>,
            !.hasLoss = FALSE]
    /\ ctor' = [ctor EXCEPT !.pc = "variant"]
    /\ UNCHANGED <<call, ncalls, ret, exc, adata, drv, stack>>

\* math.ceil(n / binsize) with the default binsize of 1000
BinSize == 1000

CeilDiv(n, d) == (n + d - 1) \div d

\* RigidAlignmentRefiner.__init__ lines 110-124,
\* NonRigidAlignmentRefiner.__init__ lines 72-76
InitVariant ==
    /\ ctor.pc = "variant"
    /\ refiner' =
         IF ctor.cls = "rigid"
         THEN [refiner EXCEPT
                 !.attrs = @ \cup {"theta"},
                 !.theta = [init |-> IF ctor.theta = "None" THEN "identity" ELSE "supplied",
                            steps |-> 0]]
         ELSE [refiner EXCEPT
                 !.attrs = @ \cup {"src_points", "displacement"},
                 !.src_points = CeilDiv(ctor.to_align.shape[2], BinSize)
                                  * CeilDiv(ctor.to_align.shape[1], BinSize),
                 !.displacement = [init |-> "zeros", steps |-> 0]]
    /\ ctor' = [ctor EXCEPT !.pc = "done"]
    /\ UNCHANGED <<call, ncalls, ret, exc, adata, drv, stack>>

\* AlignmentRefiner.optimizer, lines 35-38
Optimizer(r) == IF r.optimizer = "None" THEN "Adam" ELSE r.optimizer

\* aligner.train(n_epochs): line 44 and entry into the loop
StartTrain(n, by) ==
    /\ ctor.pc = "done"
    /\ call.pc \in {"none", "returned"}
    /\ refiner' = [refiner EXCEPT !.optimizer = Optimizer(refiner)]
    /\ call' = [NoCall EXCEPT !.pc = "loop", !.n_epochs = n, !.by = by,
                              !.hist0 = Len(refiner.history),
                              !.steps0 = Param(refiner).steps]
    /\ ncalls' = ncalls + 1
    /\ UNCHANGED <<ctor, ret, exc>>

\* a caller trains the refiner it constructed
Train ==
    /\ drv.pc = "off" /\ stack.pc = "off"
    /\ exc = "none"
    /\ ncalls < MaxCalls
    /\ \E n \in 0..MaxEpochs : StartTrain(n, "caller")
    /\ UNCHANGED <<adata, drv, stack>>

\* line 47: for i in range(n_epochs)
TrainLoopOneLess ==
    /\ call.pc = "loop"
    /\ call' = [call EXCEPT !.pc = IF call.i + 1 < call.n_epochs THEN "forward" ELSE "returned"]
    /\ UNCHANGED <<ctor, refiner, ncalls, ret, exc, adata, drv, stack>>

TrainLoop ==
    /\ call.pc = "loop"
    /\ call' = [call EXCEPT !.pc = IF call.i < call.n_epochs THEN "forward" ELSE "returned"]
    /\ UNCHANGED <<ctor, refiner, ncalls, ret, exc, adata, drv, stack>>

\* shape of transform(x, params, train=True) for x = self.to_align:
\* grid_sample keeps x.size() (line 136), warp_image_tps(...).squeeze() drops
\* the axes of length 1 (line 99)
PredShape(r) == IF r.cls = "rigid" THEN r.to_align.shape ELSE Squeeze(r.to_align.shape)

\* line 48: pred = self(), i.e. forward(), lines 40-41
Forward ==
    /\ call.pc = "forward"
    /\ call' = [call EXCEPT !.pc = "loss", !.pred = PredShape(refiner),
                            !.predAt = Param(refiner).steps, !.nForward = @ + 1]
    /\ UNCHANGED <<ctor, refiner, ncalls, ret, exc, adata, drv, stack>>

\* line 49: loss = self.loss(pred), lines 32-33; the subtraction raises when
\* pred and reference do not broadcast
Loss ==
    /\ call.pc = "loss"
    /\ IF Broadcastable(call.pred, refiner.reference.shape)
       THEN /\ call' = [call EXCEPT !.pc = "record", !.lossAt = call.predAt, !.nLoss = @ + 1]
            /\ UNCHANGED <<exc, drv>>
       ELSE /\ call' = [call EXCEPT !.pc = "raised"]
            /\ Raise("RuntimeError")
    /\ UNCHANGED <<ctor, refiner, ncalls, ret, adata, stack>>

\* line 50: self.history.setdefault("loss", []).append(loss.item())
RecordOverwrites ==
    /\ call.pc = "record"
    /\ refiner' = [refiner EXCEPT !.history = <<[at |-> call.lossAt]>>,
                                  !.hasLoss = TRUE]
    /\ call' = [call EXCEPT !.pc = "backward", !.nAppend = @ + 1]
    /\ UNCHANGED <<ctor, ncalls, ret, exc, adata, drv, stack>>

Record ==
    /\ call.pc = "record"
    /\ refiner' = [refiner EXCEPT !.history = Append(@, [at |-> call.lossAt]),
                                  !.hasLoss = TRUE]
    /\ call' = [call EXCEPT !.pc = "backward", !.nAppend = @ + 1]
    /\ UNCHANGED <<ctor, ncalls, ret, exc, adata, drv, stack>>

\* lines 55-56: optimizer.zero_grad(); loss.backward()
Backward ==
    /\ call.pc = "backward"
    /\ call' = [call EXCEPT !.pc = "step", !.nBackward = @ + 1]
    /\ UNCHANGED <<ctor, refiner, ncalls, ret, exc, adata, drv, stack>>

\* one Adam update of a parameter tensor
Updated(p) == [p EXCEPT !.steps = @ + 1]

\* line 57: optimizer.step() updates every tensor of self.parameters() in place
Step ==
    /\ call.pc = "step"
    /\ refiner' = [refiner EXCEPT
            !.theta = IF "theta" \in Parameters(refiner) THEN Updated(@) ELSE @,
            !.displacement = IF "displacement" \in Parameters(refiner) THEN Updated(@) ELSE @]
    /\ call' = [call EXCEPT !.pc = "loop", !.i = @ + 1, !.nStep = @ + 1]
    /\ UNCHANGED <<ctor, ncalls, ret, exc, adata, drv, stack>>

\* get_params(train): lines 59-60, 78-83, 139-143.  With train = False the
\* tensors are detached and converted to numpy arrays.
ParamsOfNoDetach(r, train) ==
    [type |-> "Tensor",
     keys |-> IF r.cls = "rigid" THEN {"theta"} ELSE {"src_points", "displacement"},
     shared |-> TRUE,
     atReturn |-> Param(r)]

ParamsOf(r, train) ==
    [type |-> IF train THEN "Tensor" ELSE "ndarray",
     keys |-> IF r.cls = "rigid" THEN {"theta"} ELSE {"src_points", "displacement"},
     shared |-> TRUE,
     atReturn |-> Param(r)]

\* a caller reads the parameters between two train calls
GetParams ==
    /\ drv.pc = "off" /\ stack.pc = "off"
    /\ exc = "none"
    /\ ctor.pc = "done"
    /\ call.pc \in {"none", "returned"}
    /\ \E train \in BOOLEAN : ret' = ParamsOf(refiner, train)
    /\ UNCHANGED <<ctor, refiner, call, ncalls, exc, adata, drv, stack>>

ConstructorSteps == InitCheck \/ InitBase \/ InitVariant

EpochSteps == TrainLoop \/ Forward \/ Loss \/ Record \/ Backward \/ Step


\* ---------------------------------------------------------------- driver
\* A layer name is the sequence of the words its "_"-joined key is made of.
STAIN_LAYER_KEY == <<"stain">>

UNSPLICED_LAYER_KEY == <<"unspliced">>

MASK_SUFFIX == "mask"

\* SKM.gen_new_layer_key(name, suffix): "<name>_<suffix>"
gen_new_layer_key(name, suffix) == name \o <<suffix>>

LayerNames ==
    {STAIN_LAYER_KEY, UNSPLICED_LAYER_KEY,
     gen_new_layer_key(STAIN_LAYER_KEY, MASK_SUFFIX),
     gen_new_layer_key(UNSPLICED_LAYER_KEY, MASK_SUFFIX)}

\* every layer of one AnnData has the shape of the dataset
DataShape == <<1, 2>>

\* the rasters a dataset may hold under a layer name: a boolean one, whose
\* pixels differ from layer to layer, or a non-boolean one
LayerData(name) ==
    {[dtype |-> "bool", shape |-> DataShape,
      px |-> <<name[1] = "stain", Len(name) = 1>>, ops |-> <<>>]}
    \cup (IF Len(name) = 1
          THEN {[dtype |-> "float64", shape |-> DataShape,
                 px |-> <<IF name[1] = "stain" THEN 3 ELSE 5, 7>>, ops |-> <<>>]}
          ELSE {})

\* the datasets: any subset of the layer names present, the uns slot empty
Datasets ==
    UNION {{[layers |-> f, uns |-> NoRet] :
              f \in {g \in [present -> UNION {LayerData(n) : n \in LayerNames}] :
                        \A n \in present : g[n] \in LayerData(n)}}
              : present \in SUBSET LayerNames}

RECURSIVE SeqsUpTo(_, _)
\* the sequences over S of length at most n
SeqsUpTo(S, n) ==
    IF n = 0 THEN {<<>>}
    ELSE LET shorter == SeqsUpTo(S, n - 1)
         IN  shorter \cup {Append(q, x) : q \in shorter, x \in S}

NoDrv == [pc |-> "off", stain_layer |-> <<>>, rna_layer |-> <<>>, mode |-> "none",
          n_epochs |-> 0, theta |-> "None", transform_layers |-> <<>>, isNone |-> TRUE,
          stain_key |-> <<>>, rna_key |-> <<>>,
          stain_mask |-> NoArray, rna_mask |-> NoArray, params |-> NoRet, k |-> 1,
          reads |-> <<>>, adata0 |-> [layers |-> <<>>, uns |-> NoRet]]

\* the names transform_layers is drawn from
TransformNames == LayerNames \ {gen_new_layer_key(UNSPLICED_LAYER_KEY, MASK_SUFFIX)}

\* refine_alignment(adata, stain_layer, rna_layer, mode, n_epochs, transform_layers, **kwargs)
refine_alignment ==
    /\ drv.pc = "idle"
    /\ \E stain_layer \in {STAIN_LAYER_KEY, UNSPLICED_LAYER_KEY},
          rna_layer \in {STAIN_LAYER_KEY, UNSPLICED_LAYER_KEY},
          mode \in MODULES \cup {"affine"},
          n \in 0..MaxEpochs,
          theta \in {"None", "supplied"},
          isNone \in BOOLEAN,
          tl \in SeqsUpTo(TransformNames, MaxLayers) :
          /\ isNone => tl = <<>>
          /\ drv' = [NoDrv EXCEPT !.pc = "mode", !.stain_layer = stain_layer,
                                  !.rna_layer = rna_layer, !.mode = mode, !.n_epochs = n,
                                  !.theta = theta, !.transform_layers = tl,
                                  !.isNone = isNone, !.adata0 = adata]
    /\ UNCHANGED <<ctor, refiner, call, ncalls, ret, exc, adata, stack>>

\* line 175: mode not in MODULES.keys()
ModeRejectedNever(mode) == FALSE

ModeRejected(mode) == mode \notin MODULES

\* lines 175-176
CheckMode ==
    /\ drv.pc = "mode"
    /\ IF ModeRejected(drv.mode)
       THEN Raise("PreprocessingError")
       ELSE /\ drv' = [drv EXCEPT !.pc = "stain"]
            /\ UNCHANGED exc
    /\ UNCHANGED <<ctor, refiner, call, ncalls, ret, adata, stack>>

\* lines 178-180 and 183-185: the masked key if the dataset has it, else the
\* literal name
ResolveLiteralFirst(layers, name) ==
    IF name \in DOMAIN layers THEN name ELSE gen_new_layer_key(name, MASK_SUFFIX)

Resolve(layers, name) ==
    IF gen_new_layer_key(name, MASK_SUFFIX) \in DOMAIN layers
    THEN gen_new_layer_key(name, MASK_SUFFIX)
    ELSE name

\* SKM.select_layer_data(adata, layer) succeeds on the layers the dataset has
HasLayer(d, layer) == layer \in DOMAIN d.layers

select_layer_data(d, layer) == d.layers[layer]

\* lines 178-181
SelectStain ==
    /\ drv.pc = "stain"
    /\ LET layer == Resolve(adata.layers, drv.stain_layer)
       IN  IF HasLayer(adata, layer)
           THEN /\ drv' = [drv EXCEPT !.pc = "rna", !.stain_key = layer,
                                      !.stain_mask = select_layer_data(adata, layer),
                                      !.reads = Append(@, layer)]
                /\ UNCHANGED exc
           ELSE Raise("KeyError")
    /\ UNCHANGED <<ctor, refiner, call, ncalls, ret, adata, stack>>

\* lines 183-186
SelectRna ==
    /\ drv.pc = "rna"
    /\ LET layer == Resolve(adata.layers, drv.rna_layer)
       IN  IF HasLayer(adata, layer)
           THEN /\ drv' = [drv EXCEPT !.pc = "build", !.rna_key = layer,
                                      !.rna_mask = select_layer_data(adata, layer),
                                      !.reads = Append(@, layer)]
                /\ UNCHANGED exc
           ELSE Raise("KeyError")
    /\ UNCHANGED <<ctor, refiner, call, ncalls, ret, adata, stack>>

\* lines 188-189: module = MODULES[mode]; aligner = module(rna_mask, stain_mask, **kwargs)
Build ==
    /\ drv.pc = "build"
    /\ IF drv.mode \in MODULES
       THEN New(drv.mode, drv.rna_mask, drv.stain_mask, drv.theta, "driver")
       ELSE /\ Raise("KeyError")
            /\ UNCHANGED <<ctor, refiner, call, ncalls, ret>>
    /\ UNCHANGED <<adata, stack>>


\* line 190: aligner.train(n_epochs), once the constructor has returned
DrvTrain ==
    /\ drv.pc = "build"
    /\ StartTrain(drv.n_epochs, "driver")
    /\ drv' = [drv EXCEPT !.pc = "train"]
    /\ UNCHANGED <<adata, stack>>

\* SKM.set_uns_spatial_attribute(adata, SKM.UNS_SPATIAL_ALIGNMENT_KEY, params)
set_uns_spatial_attribute(d, params) == [d EXCEPT !.uns = params]

\* lines 192-193, once train has returned
StoreParams ==
    /\ drv.pc = "train"
    /\ call.pc = "returned"
    /\ LET params == ParamsOf(refiner, FALSE)
       IN  /\ drv' = [drv EXCEPT !.pc = "layers", !.params = params]
           /\ adata' = set_uns_spatial_attribute(adata, params)
    /\ UNCHANGED <<ctor, refiner, call, ncalls, ret, exc, stack>>

\* shape of transform(x, params) with train = False for a 2D array x:
\* x[None][None] resampled; the rigid variant returns it as it is (line 137),
\* the non-rigid variant squeezed (lines 99-100)
TransformShape(cls, shape) ==
    IF cls = "rigid" THEN Unsqueeze2(shape) ELSE Squeeze(Unsqueeze2(shape))

\* aligner.transform(data, params): lines 86-100 and 127-137
transform(cls, data, params) ==
    [dtype |-> "float32",
     shape |-> TransformShape(cls, data.shape),
     px |-> data.px,
     ops |-> Append(data.ops, [op |-> "transform", cls |-> cls, param |-> Value(params)])]

\* transformed > 0.5
GreaterHalf(a) ==
    [a EXCEPT !.dtype = "bool",
              !.ops = Append(@, [op |-> "gt0.5", cls |-> "none", param |-> NoParam])]

\* lines 198-200: what is written back for a layer holding data
RewrittenNoThreshold(cls, data, params) == transform(cls, data, params)

Rewritten(cls, data, params) ==
    IF data.dtype = "bool"
    THEN GreaterHalf(transform(cls, data, params))
    ELSE transform(cls, data, params)

\* SKM.set_layer_data(adata, layer, data)
set_layer_data(d, layer, data) ==
    [d EXCEPT !.layers = [n \in DOMAIN @ \cup {layer} |-> IF n = layer THEN data ELSE @[n]]]

\* lines 195-201: one iteration of the loop over transform_layers; the loop is
\* not entered when transform_layers is None or empty
TransformLayers ==
    /\ drv.pc = "layers"
    /\ IF drv.k > Len(drv.transform_layers)
       THEN /\ drv' = [drv EXCEPT !.pc = "done"]
            /\ UNCHANGED <<adata, exc>>
       ELSE LET layer == drv.transform_layers[drv.k]
            IN  IF HasLayer(adata, layer)
                THEN /\ adata' = set_layer_data(adata, layer,
                                    Rewritten(refiner.cls, select_layer_data(adata, layer),
                                              drv.params))
                     /\ drv' = [drv EXCEPT !.k = @ + 1, !.reads = Append(@, layer)]
                     /\ UNCHANGED exc
                ELSE /\ Raise("KeyError")
                     /\ UNCHANGED adata
    /\ UNCHANGED <<ctor, refiner, call, ncalls, ret, stack>>

\* ---------------------------------------------------------------- pairwise aligner
\* A slice's feature matrix X is a sequence of rows, one per point, with a
\* column per gene of the slice's var index; feature values are in hundredths.
Elems(q) == {q[k] : k \in DOMAIN q}

\* lines 41 and 94: the genes of slice1, in its order, that slice2 has too
common_genes(slice1, slice2) ==
    SelectSeq(slice1.genes, LAMBDA g : g \in Elems(slice2.genes))

\* lines 42 and 95: slice[:, common_genes]
SubsetGenes(slice, genes) ==
    [slice EXCEPT
        !.genes = genes,
        !.X = [r \in DOMAIN slice.X |->
                 [k \in DOMAIN genes |->
                    slice.X[r][CHOOSE c \in DOMAIN slice.genes : slice.genes[c] = genes[k]]]]]

\* lines 51 and 105: X + 0.01
SmoothedNotAtAll(X) == X

Smoothed(X) == [r \in DOMAIN X |-> [k \in DOMAIN X[r] |-> X[r][k] + 1]]

RECURSIVE RowSum(_)
\* X.sum(axis=1) of one row
RowSum(row) == IF row = <<>> THEN 0 ELSE row[1] + RowSum(Tail(row))

\* lines 52-53 and 106-107: every entry of the row divided by the row sum has
\* a finite logarithm, i.e. the quotient exists and is positive
LogFinite(row) == \A k \in DOMAIN row : RowSum(row) # 0 /\ row[k] * RowSum(row) > 0

\* lines 48-56 and 101-109: every entry of the feature cost D is finite
CostFiniteAlways(slice1, slice2) == TRUE

CostFinite(slice1, slice2) ==
    LET genes == common_genes(slice1, slice2)
        X == Smoothed(SubsetGenes(slice1, genes).X)
        Y == Smoothed(SubsetGenes(slice2, genes).X)
    IN  /\ \A r \in DOMAIN X : LogFinite(X[r])
        /\ \A r \in DOMAIN Y : LogFinite(Y[r])

\* the transport solver ends with a numerical error on a cost matrix that has
\* a non-finite entry
SolverFails(slice1, slice2) == ~CostFinite(slice1, slice2)

\* ---------------------------------------------------------------- slice stack
\* A slice identifier is "<base><stage>_S<section>", or "<base><stage>" when
\* section = -1.
SliceIDs == {[base |-> "E", stage |-> 7, section |-> s] : s \in {-1, 1, 2}}

\* the feature matrices of the slices of a stack: one point, two genes
StackGenes == <<"a", "b">>

StackFeatures == {<<<<100, 0>>>>, <<<<-1, 100>>>>}

NoRaw == [X |-> <<>>, genes |-> <<>>]

\* an AnnData slice: its identifier, its features, the operations applied so
\* far to the coordinates in obsm['spatial'], the columns of obsm['spatial']
\* and of obs added by the assembler, the z value written, and its .raw
NewSlice(id, X) ==
    [slice_ID |-> id, X |-> X, genes |-> StackGenes, raw |-> NoRaw,
     spatial |-> <<>>, cols |-> {"x", "y"}, obs |-> {}, z |-> -1]

NoStack ==
    [pc |-> "off", fn |-> "none", slicesList |-> <<>>, heap |-> <<>>, input |-> <<>>,
     heap0 |-> <<>>, device |-> "cpu", save |-> "None", piList |-> <<>>, i |-> 0,
     log |-> <<>>, files |-> {}, nwrites |-> 0,
     frac |-> 0, full |-> <<>>, returned |-> <<>>]

\* range(len(slicesList) - 1), lines 181, 192 and 195
PairRangeReversed(n) == [k \in 1..(IF n > 1 THEN n - 1 ELSE 0) |-> n - 1 - k]

PairRange(n) == [k \in 1..(IF n > 1 THEN n - 1 ELSE 0) |-> k - 1]

\* the body of slice_alignment starts on the list objs of heap objects
Enter(fr, objs) ==
    [fr EXCEPT !.pc = IF Len(objs) > 1 THEN "align" ELSE "z",
               !.slicesList = objs, !.input = objs, !.heap0 = fr.heap, !.i = 1]

\* slice_alignment(slicesList, alpha, numItermax, numItermaxEmd, device, save, verbose);
\* object k of the heap is the k-th slice of the caller
slice_alignment ==
    /\ stack.pc = "idle"
    /\ \E n \in 0..MaxSlices, device \in {"cpu", "cuda"}, save \in {"None", "dir"} :
       \E ids \in [1..n -> SliceIDs], Xs \in [1..n -> StackFeatures] :
          stack' = Enter([NoStack EXCEPT
                            !.fn = "slice_alignment",
                            !.heap = [k \in 1..n |-> NewSlice(ids[k], Xs[k])],
                            !.device = device, !.save = save],
                         [k \in 1..n |-> k])
    /\ UNCHANGED <<ctor, refiner, call, ncalls, ret, exc, adata, drv>>

\* pairwise_align1 / pairwise_align2 on slices a and b of the heap: the
\* plan is determined by the coordinates and features the two slices have
\* when the aligner is called
pairwise_align(heap, a, b, device) ==
    [A |-> a, B |-> b, coordsA |-> heap[a].spatial, coordsB |-> heap[b].spatial,
     device |-> device]

\* lines 173-193: one element of the list comprehension building piList
Align ==
    /\ stack.pc = "align"
    /\ LET n == Len(stack.slicesList)
           i == PairRange(n)[stack.i]
           a == stack.slicesList[i + 1]
           b == stack.slicesList[i + 2]
           pi == pairwise_align(stack.heap, a, b, stack.device)
       IN  IF SolverFails(stack.heap[a], stack.heap[b])
           THEN /\ stack' = [stack EXCEPT !.pc = "raised"]
                /\ exc' = "NumericalError"
           ELSE /\ stack' = [stack EXCEPT
                       !.piList = Append(@, pi),
                       !.log = Append(@, <<"align", i>>),
                       !.i = IF stack.i < Len(PairRange(n)) THEN @ + 1 ELSE 1,
                       !.pc = IF stack.i < Len(PairRange(n)) THEN "align" ELSE "superpose"]
                /\ UNCHANGED exc
    /\ UNCHANGED <<ctor, refiner, call, ncalls, ret, adata, drv>>

\* AnnData.copy(), lines 196-197: a new object with the same content
copyAlias(heap, o) == [heap |-> heap, obj |-> o]

copy(heap, o) == [heap |-> Append(heap, heap[o]), obj |-> Len(heap) + 1]

\* lines 201 and 208: slice1Coor = rawSlice1Coor - pi.sum(axis=1).dot(rawSlice1Coor)
Slice1CoorRotated(coords, i) ==
    coords \o <<[op |-> "center", pair |-> i], [op |-> "rotate", pair |-> i]>>

Slice1Coor(coords, i) == Append(coords, [op |-> "center", pair |-> i])

\* lines 202-206 and 209: slice2Coor centred, then R.dot(slice2Coor.T).T
Slice2Coor(coords, i) ==
    coords \o <<[op |-> "center", pair |-> i], [op |-> "rotate", pair |-> i]>>

\* lines 195-211: one iteration; the two slices are copied, the copies get
\* the new coordinates and replace the list entries
Superpose ==
    /\ stack.pc = "superpose"
    /\ LET n == Len(stack.slicesList)
           i == PairRange(n)[stack.i]
           pi == stack.piList[i + 1]
           c1 == copy(stack.heap, stack.slicesList[i + 1])
           c2 == copy(c1.heap, stack.slicesList[i + 2])
           slice1 == c1.obj
           slice2 == c2.obj
           heap == [c2.heap EXCEPT
                      ![slice1] = [@ EXCEPT !.spatial = Slice1Coor(@, i),
                                            !.cols = {"x", "y"}],
                      ![slice2] = [@ EXCEPT !.spatial = Slice2Coor(@, i),
                                            !.cols = {"x", "y"}]]
       IN  stack' = [stack EXCEPT
                       !.heap = heap,
                       !.slicesList = [@ EXCEPT ![i + 1] = slice1, ![i + 2] = slice2],
                       !.log = Append(@, <<"superpose", i>>),
                       !.i = IF stack.i < Len(PairRange(n)) THEN @ + 1 ELSE 1,
                       !.pc = IF stack.i < Len(PairRange(n)) THEN "superpose" ELSE "z"]
    /\ UNCHANGED <<ctor, refiner, call, ncalls, ret, exc, adata, drv>>

\* re.findall(r"_S(\d+)", slice_ID): the section indices found in the identifier
findallAnyDigits(id) ==
    IF id.section >= 0 THEN <<id.stage, id.section>> ELSE <<id.stage>>

findall(id) == IF id.section >= 0 THEN <<id.section>> ELSE <<>>

\* line 220: save != None
ShouldSaveAlways(save) == TRUE

ShouldSave(save) == save # "None"

\* where the call goes after the z assignment and after the writes
AfterZ(fr) == IF ShouldSave(fr.save) THEN "save" ELSE "return"

\* lines 213-218: one iteration of the z assignment; [0] of an empty match
\* list raises IndexError
AssignZ ==
    /\ stack.pc = "z"
    /\ IF stack.i > Len(stack.slicesList)
       THEN /\ stack' = [stack EXCEPT !.pc = AfterZ(stack), !.i = 1]
            /\ UNCHANGED exc
       ELSE LET o == stack.slicesList[stack.i]
                found == findall(stack.heap[o].slice_ID)
            IN  IF found = <<>>
                THEN /\ stack' = [stack EXCEPT !.pc = "raised"]
                     /\ exc' = "IndexError"
                ELSE /\ stack' = [stack EXCEPT
                            !.heap[o] = [@ EXCEPT !.obs = @ \cup {"new_x", "new_y", "new_z"},
                                                  !.cols = @ \cup {"z"},
                                                  !.z = found[1]],
                            !.i = @ + 1]
                     /\ UNCHANGED exc
    /\ UNCHANGED <<ctor, refiner, call, ncalls, ret, adata, drv>>

\* lines 220-225: one write_h5ad per slice into the directory save, the file
\* named f"{slice_ID}.h5ad"; a write may fail
Save ==
    /\ stack.pc = "save"
    /\ IF stack.i > Len(stack.slicesList)
       THEN /\ stack' = [stack EXCEPT !.pc = "return", !.i = 1]
            /\ UNCHANGED exc
       ELSE \/ /\ stack' = [stack EXCEPT
                        !.files = @ \cup {stack.heap[stack.slicesList[stack.i]].slice_ID},
                        !.nwrites = @ + 1,
                        !.i = @ + 1]
               /\ UNCHANGED exc
            \/ /\ stack' = [stack EXCEPT !.pc = "raised"]
               /\ exc' = "OSError"
    /\ UNCHANGED <<ctor, refiner, call, ncalls, ret, adata, drv>>

\* line 229: return slicesList
Return ==
    /\ stack.pc = "return"
    /\ stack.fn = "slice_alignment"
    /\ stack' = [stack EXCEPT !.pc = "done", !.returned = stack.slicesList]
    /\ UNCHANGED <<ctor, refiner, call, ncalls, ret, exc, adata, drv>>

\* pandas DataFrame.sample(frac=frac, axis=1) takes round(frac * len) columns,
\* round being Python's round-half-to-even; frac is in percent
SampleSize(frac, len) ==
    LET q == (frac * len) \div 100
        r == (frac * len) % 100
    IN  IF r > 50 \/ (r = 50 /\ q % 2 = 1) THEN q + 1 ELSE q

\* the column selections sample may return: the chosen genes in any order
Samples(genes, frac) ==
    {q \in [1..SampleSize(frac, Len(genes)) -> Elems(genes)] :
        \A j, k \in DOMAIN q : q[j] = q[k] => j = k}

\* line 262: adata.raw = adata
WithRaw(sl) == [sl EXCEPT !.raw = [X |-> sl.X, genes |-> sl.genes]]

\* lines 261-272: _select_sample returns a new slice with the sampled
\* columns, the obs and obsm of adata, and adata as raw
select_sample(sl, genes) ==
    [SubsetGenes(sl, genes) EXCEPT !.raw = [X |-> sl.X, genes |-> sl.genes]]

\* slice_alignment_sample(slicesList, frac, numItermax, numItermaxEmd, device, save, verbose):
\* lines 274-285, the sampled slices are built and handed to slice_alignment;
\* objects 1..n of the heap are the caller's slices, n+1..2n the sampled ones
slice_alignment_sample ==
    /\ stack.pc = "idle"
    /\ \E n \in 0..MaxSampled, frac \in {50, 100}, device \in {"cpu", "cuda"},
          save \in {"None", "dir"} :
       \E ids \in [1..n -> SliceIDs], Xs \in [1..n -> StackFeatures],
          sel \in [1..n -> Samples(StackGenes, frac)] :
          LET full == [k \in 1..n |-> WithRaw(NewSlice(ids[k], Xs[k]))]
              sampleAdataList == [k \in 1..n |-> select_sample(full[k], sel[k])]
          IN  stack' = Enter([NoStack EXCEPT
                                !.fn = "slice_alignment_sample",
                                !.heap = full \o sampleAdataList,
                                !.frac = frac,
                                !.full = [k \in 1..n |-> k],
                                !.device = device, !.save = save],
                             [k \in 1..n |-> n + k])
    /\ UNCHANGED <<ctor, refiner, call, ncalls, ret, exc, adata, drv>>

\* line 289: adata.raw
RawOfSampled(sl) == [X |-> sl.X, genes |-> sl.genes]

RawOf(sl) == sl.raw

\* lines 289-291: the copy of adata.raw with the obs and obsm of adata
CopyOfRaw(sl) ==
    [sl EXCEPT !.X = RawOf(sl).X, !.genes = RawOf(sl).genes, !.raw = NoRaw]

\* lines 287-294: one iteration of the copy-back loop over regAdataList, and
\* the return after the last one
CopyBack ==
    /\ stack.pc = "return"
    /\ stack.fn = "slice_alignment_sample"
    /\ IF stack.i > Len(stack.slicesList)
       THEN stack' = [stack EXCEPT !.pc = "done"]
       ELSE stack' = [stack EXCEPT
                        !.heap = Append(@, CopyOfRaw(stack.heap[stack.slicesList[stack.i]])),
                        !.returned = Append(@, Len(stack.heap) + 1),
                        !.i = @ + 1]
    /\ UNCHANGED <<ctor, refiner, call, ncalls, ret, exc, adata, drv>>

\* ---------------------------------------------------------------- one pairwise alignment
\* The slices of one aligner call: n points in a row, every point with the
\* same feature row over the slice's genes.
FeatureRows == {<<100, 0>>, <<0, 0>>, <<-1, 100>>}

AlignSlices(genes) ==
    {[X |-> [k \in 1..n |-> row], genes |-> genes, spatial |-> [k \in 1..n |-> <<k, 0>>]] :
        n \in 1..MaxPoints, row \in FeatureRows}

\* scipy distance_matrix(c, c), lines 45-46 and 98-99; an entry is kept as
\* the square of the Euclidean distance
distance_matrix(c, d) ==
    [i \in DOMAIN c |-> [j \in DOMAIN d |->
        (c[i][1] - d[j][1]) * (c[i][1] - d[j][1]) + (c[i][2] - d[j][2]) * (c[i][2] - d[j][2])]]

\* lines 50-56 and 103-109: the feature cost D, kept as the two smoothed
\* tables it is computed from
FeatureCost(slice1, slice2) ==
    [X |-> Smoothed(slice1.X), Y |-> Smoothed(slice2.X)]

\* lines 59-60 and 112-113: np.ones((n,)) / n, entries as fractions <<num, den>>
UniformOnes(n) == [k \in 1..n |-> <<1, 1>>]

Uniform(n) == [k \in 1..n |-> <<1, n>>]

\* p[:, None] * q[None, :], line 122
Outer(p, q) ==
    [i \in DOMAIN p |-> [j \in DOMAIN q |-> <<p[i][1] * q[j][1], p[i][2] * q[j][2]>>]]

\* ot.gromov.init_matrix(C1, C2, p, q, loss_fun), line 116: constC, hC1 and hC2
\* are kept as the arguments they are computed from
init_matrix(C1, C2, p, q, loss_fun) ==
    [C1 |-> C1, C2 |-> C2, p |-> p, q |-> q, loss_fun |-> loss_fun]

\* lines 124-128: f and df close over constC, hC1, hC2
gwloss(init) == [fn |-> "gwloss", on |-> init]

gwggrad(init) == [fn |-> "gwggrad", on |-> init]

\* (1 - alpha) * M, line 131; alpha is in percent
ScaledByOne(alpha, M) == [factor |-> 100, of |-> M]

Scaled(alpha, M) == [factor |-> 100 - alpha, of |-> M]

\* what both aligners compute first, lines 41-60 and 94-113
Prepared(slice1, slice2) ==
    LET genes == common_genes(slice1, slice2)
        s1 == SubsetGenes(slice1, genes)
        s2 == SubsetGenes(slice2, genes)
    IN  [common_genes |-> genes,
         DA |-> distance_matrix(s1.spatial, s1.spatial),
         DB |-> distance_matrix(s2.spatial, s2.spatial),
         D |-> FeatureCost(s1, s2),
         p |-> Uniform(Len(s1.X)),
         q |-> Uniform(Len(s2.X))]

\* the arguments of ot.optim.cg, line 131-132
CgArgs(a, b, M, reg, f, df, G0, numItermax, numItermaxEmd, C1, C2, constC) ==
    [a |-> a, b |-> b, M |-> M, reg |-> reg, f |-> f, df |-> df, G0 |-> G0,
     numItermax |-> numItermax, numItermaxEmd |-> numItermaxEmd,
     C1 |-> C1, C2 |-> C2, constC |-> constC, armijo |-> FALSE, log |-> FALSE]

\* pairwise_align2, lines 94-132: the problem handed to ot.optim.cg
Problem2(slice1, slice2, alpha, numItermax, numItermaxEmd) ==
    LET c == Prepared(slice1, slice2)
        init == init_matrix(c.DA, c.DB, c.p, c.q, "square_loss")
    IN  CgArgs(c.p, c.q, Scaled(alpha, c.D), alpha, gwloss(init), gwggrad(init),
               Outer(c.p, c.q), numItermax, numItermaxEmd, c.DA, c.DB, init)

\* ot.gromov.fused_gromov_wasserstein(M, C1, C2, p, q, loss_fun, alpha, ...):
\* minimise (1 - alpha) <M, pi> + alpha GW(C1, C2, pi) over the plans with
\* marginals p and q by conditional gradient, started at the product plan
fused_gromov_wasserstein(M, C1, C2, p, q, loss_fun, alpha, numItermax, numItermaxEmd) ==
    LET init == init_matrix(C1, C2, p, q, loss_fun)
    IN  CgArgs(p, q, [factor |-> 100 - alpha, of |-> M], alpha, gwloss(init), gwggrad(init),
               [i \in DOMAIN p |-> [j \in DOMAIN q |-> <<p[i][1] * q[j][1], p[i][2] * q[j][2]>>]],
               numItermax, numItermaxEmd, C1, C2, init)

\* pairwise_align1, lines 41-64: the problem the solver works on
Problem1(slice1, slice2, alpha, numItermax, numItermaxEmd) ==
    LET c == Prepared(slice1, slice2)
    IN  fused_gromov_wasserstein(c.D, c.DA, c.DB, c.p, c.q, "square_loss", alpha,
                                 numItermax, numItermaxEmd)

\* ---------------------------------------------------------------- conditional gradient
\* A plan is kept in whole units: one unit is 1 / PlanUnits(n1, n2), so that
\* the product plan and MaxIter half steps from it stay whole.
RECURSIVE Pow2(_)
Pow2(k) == IF k = 0 THEN 1 ELSE 2 * Pow2(k - 1)

PlanUnits(n1, n2) == n1 * n2 * Pow2(MaxIter)

InUnits(frac, units) == (frac[1] * units) \div frac[2]

RECURSIVE Compositions(_, _)
\* the sequences of len naturals with the given sum
Compositions(len, sum) ==
    IF len = 0 THEN (IF sum = 0 THEN {<<>>} ELSE {})
    ELSE UNION {{<<c>> \o rest : rest \in Compositions(len - 1, sum - c)} : c \in 0..sum}

RECURSIVE SumSeq(_)
SumSeq(q) == IF q = <<>> THEN 0 ELSE q[1] + SumSeq(Tail(q))

Column(P, j) == [i \in DOMAIN P |-> P[i][j]]

\* the cells of P with mass
Support(P) == {<<i, j>> \in (DOMAIN P) \X (1..Len(P[1])) : P[i][j] > 0}

RECURSIVE Forest(_)
\* no cycle among the cells E, seen as edges between rows and columns:
\* removing the cells alone in their row or column again and again leaves none
Forest(E) ==
    LET leaves == {e \in E : \/ \A f \in E : f[1] = e[1] => f = e
                             \/ \A f \in E : f[2] = e[2] => f = e}
    IN  IF E = {} THEN TRUE
        ELSE IF leaves = {} THEN FALSE
        ELSE Forest(E \ leaves)

\* the plans the exact transport solver (emd) may answer with: the extreme
\* points of the set of plans with marginals a and b
Plans(a, b) ==
    LET units == PlanUnits(Len(a), Len(b))
        grain == Pow2(MaxIter)
        rows == UNION {{[j \in 1..Len(b) |-> grain * c[j]] :
                          c \in Compositions(Len(b), InUnits(a[i], units) \div grain)} :
                       i \in DOMAIN a}
    IN  {P \in [1..Len(a) -> rows] :
            /\ \A i \in DOMAIN a : SumSeq(P[i]) = InUnits(a[i], units)
            /\ \A j \in DOMAIN b : SumSeq(Column(P, j)) = InUnits(b[j], units)
            /\ Forest(Support(P))}

\* G + step * (Gc - G) with step = halves / 2
Moved(G, Gc, halves) ==
    [i \in DOMAIN G |-> [j \in DOMAIN G[i] |->
        G[i][j] + ((Gc[i][j] - G[i][j]) * halves) \div 2]]

NoSlice == [X |-> <<>>, genes |-> <<>>, spatial |-> <<>>]

NoAlign ==
    [pc |-> "off", fn |-> "none", slice1 |-> NoSlice, slice2 |-> NoSlice, alpha |-> 0,
     problem |-> <<>>, G |-> <<>>, it |-> 0, pi |-> <<>>]

\* the solver is entered with the problem of one aligner; a cost with a
\* non-finite entry ends it with a numerical error
StartAlign(fn, slice1, slice2, alpha, problem) ==
    IF SolverFails(slice1, slice2)
    THEN /\ stack' = [NoAlign EXCEPT !.pc = "raised", !.fn = fn, !.slice1 = slice1,
                                     !.slice2 = slice2, !.alpha = alpha, !.problem = problem]
         /\ exc' = "NumericalError"
    ELSE /\ stack' = [NoAlign EXCEPT
                        !.pc = "cg", !.fn = fn, !.slice1 = slice1, !.slice2 = slice2,
                        !.alpha = alpha, !.problem = problem,
                        !.G = [i \in DOMAIN problem.G0 |-> [j \in DOMAIN problem.G0[i] |->
                                 InUnits(problem.G0[i][j],
                                         PlanUnits(Len(slice1.X), Len(slice2.X)))]]]
         /\ UNCHANGED exc

\* pairwise_align1(slice1, slice2, alpha, numItermax, numItermaxEmd)
pairwise_align1 ==
    /\ stack.pc = "idle"
    /\ \E slice1 \in AlignSlices(<<"a", "b">>),
          slice2 \in AlignSlices(<<"a", "b">>) \cup AlignSlices(<<"b", "c">>),
          alpha \in {10, 50}, numItermax \in 0..MaxIter, numItermaxEmd \in {100000} :
          StartAlign("pairwise_align1", slice1, slice2, alpha,
                     Problem1(slice1, slice2, alpha, numItermax, numItermaxEmd))
    /\ UNCHANGED <<ctor, refiner, call, ncalls, ret, adata, drv>>

\* pairwise_align2(slice1, slice2, alpha, numItermax, numItermaxEmd, device)
pairwise_align2 ==
    /\ stack.pc = "idle"
    /\ \E slice1 \in AlignSlices(<<"a", "b">>),
          slice2 \in AlignSlices(<<"a", "b">>) \cup AlignSlices(<<"b", "c">>),
          alpha \in {10, 50}, numItermax \in 0..MaxIter, numItermaxEmd \in {100000} :
          StartAlign("pairwise_align2", slice1, slice2, alpha,
                     Problem2(slice1, slice2, alpha, numItermax, numItermaxEmd))
    /\ UNCHANGED <<ctor, refiner, call, ncalls, ret, adata, drv>>

\* one iteration of ot.optim.cg: the linearised problem is solved exactly, the
\* plan moves towards the answer by a step in (0, 1]
CgStep ==
    /\ stack.pc = "cg"
    /\ stack.it < stack.problem.numItermax
    /\ \E Gc \in Plans(stack.problem.a, stack.problem.b), halves \in {1, 2} :
          stack' = [stack EXCEPT !.G = Moved(stack.G, Gc, halves), !.it = @ + 1]
    /\ UNCHANGED <<ctor, refiner, call, ncalls, ret, exc, adata, drv>>

\* lines 65 and 135: the plan the solver stops at, by convergence or at the
\* iteration cap, is returned
AlignReturn ==
    /\ stack.pc = "cg"
    /\ stack' = [stack EXCEPT !.pc = "done", !.pi = stack.G]
    /\ UNCHANGED <<ctor, refiner, call, ncalls, ret, exc, adata, drv>>

\* ---------------------------------------------------------------- specifications
InitRefiner ==
    /\ ctor = NoCtor
    /\ refiner = NoRefiner
    /\ call = NoCall
    /\ ncalls = 0
    /\ ret = NoRet
    /\ exc = "none"
    /\ adata = [layers |-> <<>>, uns |-> NoRet]
    /\ drv = NoDrv
    /\ stack = NoStack

NextRefiner == Construct \/ ConstructorSteps \/ Train \/ EpochSteps \/ GetParams

\* a caller using a refiner object directly
SpecRefiner == InitRefiner /\ [][NextRefiner]_vars

\* the same with the training loop always running on
FairSpecRefiner == SpecRefiner /\ WF_vars(EpochSteps)

InitDriver ==
    /\ ctor = NoCtor
    /\ refiner = NoRefiner
    /\ call = NoCall
    /\ ncalls = 0
    /\ ret = NoRet
    /\ exc = "none"
    /\ adata \in Datasets
    /\ drv = [NoDrv EXCEPT !.pc = "idle"]
    /\ stack = NoStack

NextDriver ==
    \/ refine_alignment \/ CheckMode \/ SelectStain \/ SelectRna \/ Build
    \/ ConstructorSteps \/ DrvTrain \/ EpochSteps \/ StoreParams \/ TransformLayers

\* one call of refine_alignment on a dataset
SpecDriver == InitDriver /\ [][NextDriver]_vars

InitStack ==
    /\ ctor = NoCtor
    /\ refiner = NoRefiner
    /\ call = NoCall
    /\ ncalls = 0
    /\ ret = NoRet
    /\ exc = "none"
    /\ adata = [layers |-> <<>>, uns |-> NoRet]
    /\ drv = NoDrv
    /\ stack = [NoStack EXCEPT !.pc = "idle"]

NextStack ==
    \/ slice_alignment \/ Align \/ Superpose \/ AssignZ \/ Save \/ Return
    \/ slice_alignment_sample \/ CopyBack

\* one call of slice_alignment on a list of slices
SpecStack == InitStack /\ [][NextStack]_vars


InitAlign ==
    /\ ctor = NoCtor
    /\ refiner = NoRefiner
    /\ call = NoCall
    /\ ncalls = 0
    /\ ret = NoRet
    /\ exc = "none"
    /\ adata = [layers |-> <<>>, uns |-> NoRet]
    /\ drv = NoDrv
    /\ stack = [NoAlign EXCEPT !.pc = "idle"]

NextAlign == pairwise_align1 \/ pairwise_align2 \/ CgStep \/ AlignReturn

SpecAlign == InitAlign /\ [][NextAlign]_vars

\* ---------------------------------------------------------------- claims
Range(q) == {q[k] : k \in DOMAIN q}

\* the events slice_alignment goes through on n slices when every aligner
\* run precedes every superposition
TwoPhaseLog(n) ==
    [k \in 1..(2 * Len(PairRange(n))) |->
        IF k <= Len(PairRange(n)) THEN <<"align", k - 1>>
        ELSE <<"superpose", k - 1 - Len(PairRange(n))>>]

IsPrefix(q, r) == Len(q) <= Len(r) /\ \A k \in 1..Len(q) : q[k] = r[k]

\* C1 as stated: when the aligner runs on pair (i+1, i+2), the superposition
\* of pair (i, i+1) is already complete.
C1_SuperposedBeforeNextAlign ==
    \A k \in 1..Len(stack.log) :
        (stack.log[k][1] = "align" /\ stack.log[k][2] >= 1)
            => \E j \in 1..(k - 1) : stack.log[j] = <<"superpose", stack.log[k][2] - 1>>

\* C1 amended: slice_alignment first runs the aligner on every adjacent pair,
\* left to right, each time on the two slices as the caller passed them, and
\* only then runs the superpositions, left to right: every aligner run
\* precedes every superposition.
C1_AlignAllThenSuperpose ==
    /\ IsPrefix(stack.log, TwoPhaseLog(Len(stack.slicesList)))
    /\ \A k \in 1..Len(stack.piList) :
          /\ stack.piList[k].A = stack.input[k]
          /\ stack.piList[k].B = stack.input[k + 1]
          /\ stack.piList[k].coordsA = <<>>
          /\ stack.piList[k].coordsB = <<>>

C1_Witness ==
    /\ stack.pc = "done"
    /\ Len(stack.slicesList) >= 3
    /\ Len(stack.log) = 2 * (Len(stack.slicesList) - 1)

Running == call.pc \in {"loop", "forward", "loss", "record", "backward", "step"}

\* C2: a train(N) call that returns has run exactly N epochs, each with one
\* forward pass, one loss evaluation, one history entry, one backpropagation
\* and one optimizer update; it never does more than N of any of them, and
\* every call ends (the only other way out is the exception of the loss
\* evaluation on masks whose shapes do not broadcast).
C2_TrainRunsExactlyNEpochs ==
    /\ [](call.pc = "returned" =>
            /\ call.i = call.n_epochs
            /\ call.nForward = call.n_epochs
            /\ call.nLoss = call.n_epochs
            /\ call.nAppend = call.n_epochs
            /\ call.nBackward = call.n_epochs
            /\ call.nStep = call.n_epochs
            /\ Len(refiner.history) = call.hist0 + call.n_epochs
            /\ Param(refiner).steps = call.steps0 + call.n_epochs)
    /\ [](Running =>
            /\ call.i <= call.n_epochs
            /\ call.nStep = call.i
            /\ call.nForward <= call.n_epochs
            /\ Len(refiner.history) = call.hist0 + call.nAppend)
    /\ (Running ~> (call.pc \in {"returned", "raised"}))

C2_Witness ==
    /\ call.pc = "returned"
    /\ call.n_epochs >= 2
    /\ call.nStep = call.n_epochs

\* a train call on the refiner has returned
Converged == (ncalls >= 1 /\ call.pc = "returned") \/ ncalls >= 2

Phase ==
    IF call.pc = "none" THEN "Uninitialized"
    ELSE IF call.pc = "returned" THEN "Converged"
    ELSE IF call.pc = "raised" THEN "Failed"
    ELSE "Training"

\* C3 as stated: once a train call has returned, no later step changes the
\* transform parameters.
C3_ConvergedIsTerminal ==
    [][Converged => Param(refiner)' = Param(refiner)]_vars

\* C3 amended: a refiner moves Uninitialized -> Training -> Converged, and
\* Converged is not terminal: a later train call takes it back to Training.
\* The parameters change only in the optimizer update of an epoch, every such
\* update (of the first or of a later train call) applies one more update to
\* the same parameters, and get_params never changes them.
C3_ParamsChangeOnlyInStep ==
    [][/\ (ctor.pc = "done" /\ Param(refiner)' # Param(refiner)) => call.pc = "step"
       /\ (call.pc = "step" /\ call'.pc # "step") =>
              /\ Param(refiner)'.steps = Param(refiner).steps + 1
              /\ Param(refiner)'.init = Param(refiner).init
       /\ Phase' # Phase =>
              <<Phase, Phase'>> \in {<<"Uninitialized", "Training">>,
                                     <<"Training", "Converged">>,
                                     <<"Training", "Failed">>,
                                     <<"Converged", "Training">>}]_vars

C3_Witness ==
    /\ ncalls = 2
    /\ call.pc = "returned"
    /\ call.nStep >= 1
    /\ call.steps0 >= 1

\* C4: when the reference mask or the moving mask is not boolean, the
\* constructor raises (PreprocessingError, or TypeError when the keyword
\* arguments do not even fit the variant) and the object has no attribute:
\* no tensor, weight map, history or parameter was created.
C4_NonBooleanRejectedFirst ==
    (/\ ctor.pc \notin {"none", "check"}
     /\ (ctor.reference.dtype # "bool" \/ ctor.to_align.dtype # "bool"))
        => /\ ctor.pc = "raised"
           /\ exc = (IF ctor.cls = "non-rigid" /\ ctor.theta # "None"
                     THEN "TypeError" ELSE "PreprocessingError")
           /\ refiner = NoRefiner

C4_Witness ==
    /\ ctor.pc = "raised"
    /\ exc = "PreprocessingError"
    /\ ctor.reference.dtype = "bool"
    /\ ctor.to_align.dtype # "bool"

\* C5: a constructor given a reference and a moving mask of different shapes
\* raises, so it never gets past its checks.
C5_ShapeMismatchRejected ==
    (/\ ctor.pc \notin {"none", "check"}
     /\ ctor.reference.shape # ctor.to_align.shape)
        => ctor.pc = "raised"

\* C6: with a mode that is neither "rigid" nor "non-rigid", refine_alignment
\* raises PreprocessingError having read no layer and built no refiner, and
\* the dataset is as it was.
C6_BadModeRaisesFirst ==
    (/\ drv.pc \notin {"off", "idle", "mode"}
     /\ drv.mode \notin {"rigid", "non-rigid"})
        => /\ drv.pc = "raised"
           /\ exc = "PreprocessingError"
           /\ drv.reads = <<>>
           /\ ctor = NoCtor
           /\ refiner = NoRefiner
           /\ call = NoCall
           /\ adata = drv.adata0

C6_Witness ==
    /\ drv.pc = "raised"
    /\ drv.mode = "affine"
    /\ DOMAIN adata.layers = LayerNames

\* the layer the fallback must pick for name in a dataset with these layers
Picked(layers, name) ==
    IF (name \o <<"mask">>) \in DOMAIN layers THEN name \o <<"mask">> ELSE name

\* C7: the stain raster is layer <stain>_mask when the dataset has it and
\* layer <stain> only otherwise, and the same holds for the RNA raster,
\* whatever the other lookup found; these two rasters are the ones the refiner
\* is built from.
C7_MaskedLayerPreferred ==
    /\ drv.pc \in {"rna", "build", "train", "layers", "done"} =>
          /\ drv.stain_key = Picked(drv.adata0.layers, drv.stain_layer)
          /\ drv.stain_mask = drv.adata0.layers[drv.stain_key]
    /\ drv.pc \in {"build", "train", "layers", "done"} =>
          /\ drv.rna_key = Picked(drv.adata0.layers, drv.rna_layer)
          /\ drv.rna_mask = drv.adata0.layers[drv.rna_key]
    /\ (drv.pc \notin {"off", "idle"} /\ ctor.pc # "none") =>
          /\ ctor.reference = drv.rna_mask
          /\ ctor.to_align = drv.stain_mask

C7_Witness ==
    /\ drv.pc = "done"
    /\ drv.stain_layer = STAIN_LAYER_KEY
    /\ drv.rna_layer = UNSPLICED_LAYER_KEY
    /\ drv.stain_key = <<"stain", "mask">>
    /\ drv.rna_key = <<"unspliced">>
    /\ STAIN_LAYER_KEY \in DOMAIN drv.adata0.layers

\* the value the refiner's parameters start from
InitialParam(cls, theta) ==
    IF cls = "non-rigid" THEN "zeros" ELSE IF theta = "None" THEN "identity" ELSE "supplied"

\* C8: after a successful refine_alignment(n_epochs = N) the alignment slot
\* holds numpy arrays (not tensors) whose value is the refiner's parameters
\* after exactly N updates of their initial value: the identity matrix or
\* the zero displacements, unless the caller supplied a starting matrix.
C8_SlotHoldsFinalParams ==
    drv.pc = "done" =>
        /\ adata.uns.type = "ndarray"
        /\ adata.uns.keys = (IF drv.mode = "rigid" THEN {"theta"}
                             ELSE {"src_points", "displacement"})
        /\ Value(adata.uns) = [init |-> InitialParam(drv.mode, drv.theta),
                               steps |-> drv.n_epochs]
        /\ adata.uns.atReturn = Value(adata.uns)

C8_Witness ==
    /\ drv.pc = "done"
    /\ drv.n_epochs >= 2
    /\ drv.theta = "None"
    /\ Value(adata.uns).steps = drv.n_epochs

\* number of positions of q holding x
Occurrences(q, x) == Cardinality({k \in DOMAIN q : q[k] = x})

\* C9: each iteration of the transform_layers loop overwrites the layer it
\* names with the transform of that layer's data under the stored parameters,
\* thresholded at 0.5 into a boolean layer if the data was boolean and left
\* continuous otherwise, and changes no other layer; layers not named keep
\* their data, and with transform_layers empty or None no layer changes.
C9_TransformLayersOverwritten ==
    /\ [][(drv.pc = "layers" /\ drv'.k = drv.k + 1) =>
            LET layer == drv.transform_layers[drv.k]
                data == adata.layers[layer]
                new == adata'.layers[layer]
                warp == [op |-> "transform", cls |-> drv.mode, param |-> Value(adata.uns)]
            IN  /\ DOMAIN adata'.layers = DOMAIN adata.layers
                /\ \A n \in DOMAIN adata.layers \ {layer} : adata'.layers[n] = adata.layers[n]
                /\ new.px = data.px
                /\ IF data.dtype = "bool"
                   THEN /\ new.dtype = "bool"
                        /\ new.ops = data.ops \o <<warp, [op |-> "gt0.5", cls |-> "none",
                                                         param |-> NoParam]>>
                   ELSE /\ new.dtype = "float32"
                        /\ new.ops = data.ops \o <<warp>>]_vars
    /\ [](drv.pc \in {"layers", "done", "raised"} =>
            /\ \A n \in DOMAIN adata.layers \ Range(drv.transform_layers) :
                  /\ n \in DOMAIN drv.adata0.layers
                  /\ adata.layers[n] = drv.adata0.layers[n]
            /\ drv.transform_layers = <<>> => adata.layers = drv.adata0.layers)
    /\ [](drv.pc = "done" =>
            \A n \in Range(drv.transform_layers) :
                /\ adata.layers[n] # drv.adata0.layers[n]
                /\ (adata.layers[n].dtype = "bool") = (drv.adata0.layers[n].dtype = "bool")
                /\ Len(adata.layers[n].ops)
                     = Occurrences(drv.transform_layers, n)
                         * (IF drv.adata0.layers[n].dtype = "bool" THEN 2 ELSE 1))

C9_Witness ==
    /\ drv.pc = "done"
    /\ Len(drv.transform_layers) = 2
    /\ \E n \in Range(drv.transform_layers) :
          adata.layers[n].dtype = "bool" /\ drv.adata0.layers[n].dtype = "bool"
    /\ \E n \in Range(drv.transform_layers) : adata.layers[n].dtype = "float32"
    /\ \E n \in DOMAIN adata.layers : n \notin Range(drv.transform_layers)

RECURSIVE SumOver(_, _)
\* the exact sum of the weights w[k], k in S, as a quotient <<num, den>>
SumOver(w, S) ==
    IF S = {} THEN <<0, 1>>
    ELSE LET k == CHOOSE x \in S : TRUE
             rest == SumOver(w, S \ {k})
         IN  <<w[k][1] * rest[2] + rest[1] * w[k][2], w[k][2] * rest[2]>>

\* C10: for a reference mask with both classes present, each foreground
\* pixel weighs totalPixels/(2*foregroundCount), each background pixel
\* totalPixels/(2*backgroundCount), and both classes sum to totalPixels/2.
C10_WeightMapBalanced ==
    LET px == ctor.reference.px
        size == Len(px)
        fg == {k \in DOMAIN px : px[k]}
        bg == {k \in DOMAIN px : ~px[k]}
        w == refiner.weight
        fgSum == SumOver(w, fg)
        bgSum == SumOver(w, bg)
    IN  ("weight" \in refiner.attrs /\ fg # {} /\ bg # {}) =>
            /\ DOMAIN w = DOMAIN px
            /\ \A k \in fg : w[k][1] * 2 * Cardinality(fg) = size * w[k][2]
            /\ \A k \in bg : w[k][1] * 2 * Cardinality(bg) = size * w[k][2]
            /\ fgSum[1] * bgSum[2] = bgSum[1] * fgSum[2]
            /\ 2 * fgSum[1] = size * fgSum[2]

C10_Witness ==
    /\ "weight" \in refiner.attrs
    /\ CountTrue(ctor.reference.px) = 1
    /\ CountFalse(ctor.reference.px) = 3

Listed(k) == stack.heap[stack.slicesList[k]]

\* C11: when slice_alignment returns, every slice of the returned list, for a
\* list of any length, has x, y and z columns, a single z equal to the section
\* index after "_S" in its own identifier, and the derived fields in obs.
C11_ZFromOwnIdentifier ==
    (stack.fn = "slice_alignment" /\ stack.pc = "done") =>
        /\ stack.returned = stack.slicesList
        /\ \A k \in 1..Len(stack.returned) :
              /\ Listed(k).slice_ID.section >= 0
              /\ Listed(k).z = Listed(k).slice_ID.section
              /\ Listed(k).cols = {"x", "y", "z"}
              /\ {"new_x", "new_y", "new_z"} \subseteq Listed(k).obs

C11_Witness ==
    /\ stack.fn = "slice_alignment"
    /\ stack.pc = "done"
    /\ Len(stack.returned) >= 2
    /\ Listed(1).z # Listed(2).z

ListedIDs == {Listed(k).slice_ID : k \in 1..Len(stack.slicesList)}

\* C12 as stated: after a call with a destination directory the directory
\* holds as many slice files as the list has slices, and without a directory
\* nothing is written.
C12_AsManyFilesAsSlices ==
    (stack.fn = "slice_alignment" /\ stack.pc = "done") =>
        IF stack.save # "None"
        THEN Cardinality(stack.files) = Len(stack.slicesList)
        ELSE stack.files = {} /\ stack.nwrites = 0

\* C12 amended: a call with a destination directory that returns has written
\* once per slice of the list, each time the file named from that slice's
\* identifier, so the directory holds one file per distinct identifier (two
\* slices with the same identifier share a file, the later write replacing
\* the earlier); without a directory nothing is ever written.
C12_OneWritePerSlice ==
    /\ stack.save = "None" => (stack.files = {} /\ stack.nwrites = 0)
    /\ stack.files \subseteq ListedIDs
    /\ (stack.fn = "slice_alignment" /\ stack.pc = "done" /\ stack.save # "None") =>
          /\ stack.nwrites = Len(stack.slicesList)
          /\ stack.files = ListedIDs
          /\ Cardinality(stack.files) <= Len(stack.slicesList)
          /\ (Cardinality(stack.files) = Len(stack.slicesList)) <=>
                (\A j, k \in 1..Len(stack.slicesList) :
                    Listed(j).slice_ID = Listed(k).slice_ID => j = k)

C12_Witness ==
    /\ stack.fn = "slice_alignment"
    /\ stack.pc = "done"
    /\ stack.save # "None"
    /\ Len(stack.slicesList) = 2
    /\ stack.nwrites = 2
    /\ Cardinality(stack.files) = 1

\* C14 as stated: after slice_alignment returns, each slice object of the
\* input list is still the object at its list position and carries the
\* updated coordinates.
C14_SameObjectsUpdated ==
    (stack.fn = "slice_alignment" /\ stack.pc = "done") =>
        \A k \in 1..Len(stack.input) :
            /\ stack.slicesList[k] = stack.input[k]
            /\ "z" \in stack.heap[stack.input[k]].cols

\* C14 amended: slice_alignment updates the caller's list, not the caller's
\* slice objects. The list keeps its length and position k keeps holding a
\* slice with the identifier and features of input slice k; on two or more
\* slices every input object keeps the content it had before the call and
\* every position of the returned list holds a new object, a copy carrying
\* the updated coordinates; on a single slice the object stays in the list
\* and is itself given z and the derived fields.
C14_ListUpdatedWithCopies ==
    stack.fn = "slice_alignment" =>
        /\ Len(stack.slicesList) = Len(stack.input)
        /\ \A k \in 1..Len(stack.input) :
              /\ Listed(k).slice_ID = stack.heap0[stack.input[k]].slice_ID
              /\ Listed(k).X = stack.heap0[stack.input[k]].X
        /\ Len(stack.input) >= 2 =>
              /\ \A o \in 1..Len(stack.heap0) : stack.heap[o] = stack.heap0[o]
              /\ stack.pc = "done" =>
                    \A j, k \in 1..Len(stack.input) :
                        /\ stack.slicesList[k] # stack.input[j]
                        /\ (j # k => stack.slicesList[j] # stack.slicesList[k])
                        /\ Listed(k).spatial # <<>>
                        /\ "z" \in Listed(k).cols
        /\ (Len(stack.input) = 1 /\ stack.pc = "done") =>
              /\ stack.slicesList = stack.input
              /\ Listed(1).spatial = <<>>
              /\ "z" \in Listed(1).cols

C14_Witness ==
    /\ stack.fn = "slice_alignment"
    /\ stack.pc = "done"
    /\ Len(stack.input) = 3
    /\ stack.slicesList[2] # stack.input[2]
    /\ stack.heap[stack.input[2]].spatial = <<>>
    /\ Listed(2).spatial # <<>>

center(i) == [op |-> "center", pair |-> i]

rotate(i) == [op |-> "rotate", pair |-> i]

\* the operations slice k of n has received once the pairs 0..done-1 are superposed
ChainOps(k, done) ==
    (IF k >= 1 /\ k <= done THEN <<center(k - 1), rotate(k - 1)>> ELSE <<>>)
        \o (IF k + 1 <= done THEN <<center(k)>> ELSE <<>>)

\* the number of pairs superposed so far
Superposed == Len(SelectSeq(stack.log, LAMBDA e : e[1] = "superpose"))

\* C19: at every point of a run on slices 0..n-1, slice k has been centred and
\* rotated as second member of pair (k-1, k) if that pair is done and then
\* centred as first member of pair (k, k+1) if that pair is done, and nothing
\* else: slice 0 is never rotated, every other slice is rotated exactly once,
\* pair (i, i+1) starts from the coordinates pair (i-1, i) left in slice i,
\* and the x, y of slice i do not change after pair (i, i+1).
C19_PairTouchesOnlyItsTwoSlices ==
    stack.fn = "slice_alignment" =>
        \A k \in 1..Len(stack.slicesList) :
            Listed(k).spatial = ChainOps(k - 1, Superposed)

C19_Witness ==
    /\ stack.fn = "slice_alignment"
    /\ stack.pc = "done"
    /\ Len(stack.slicesList) = 4
    /\ Listed(1).spatial = <<center(0)>>
    /\ Listed(3).spatial = <<center(1), rotate(1), center(2)>>
    /\ Listed(4).spatial = <<center(2), rotate(2)>>

Returned(k) == stack.heap[stack.returned[k]]

\* the caller's k-th slice as it was when slice_alignment_sample was called
Caller(k) == stack.heap0[stack.full[k]]

\* C13: slice_alignment_sample returns as many slices as it was given, in the
\* same order; returned slice k has the identifier and the whole feature
\* matrix of the caller's slice k, all genes with their values, and the
\* coordinates, z and derived fields of the k-th slice of the list that
\* slice_alignment returned for the sampled slices, whose k-th entry is the
\* column sample of the caller's slice k.
C13_FullFeaturesSampledGeometry ==
    (stack.fn = "slice_alignment_sample" /\ stack.pc = "done") =>
        /\ Len(stack.returned) = Len(stack.full)
        /\ \A k \in 1..Len(stack.full) :
              /\ Returned(k).slice_ID = Caller(k).slice_ID
              /\ Returned(k).X = Caller(k).X
              /\ Returned(k).genes = Caller(k).genes
              /\ Listed(k).genes \in Samples(Caller(k).genes, stack.frac)
              /\ Listed(k).X = SubsetGenes(Caller(k), Listed(k).genes).X
              /\ Returned(k).spatial = Listed(k).spatial
              /\ Returned(k).spatial = ChainOps(k - 1, Len(stack.full) - 1)
              /\ Returned(k).cols = {"x", "y", "z"}
              /\ Returned(k).z = Caller(k).slice_ID.section
              /\ {"new_x", "new_y", "new_z"} \subseteq Returned(k).obs

C13_Witness ==
    /\ stack.fn = "slice_alignment_sample"
    /\ stack.pc = "done"
    /\ stack.frac = 50
    /\ Len(stack.returned) = 2
    /\ Len(Listed(1).genes) = 1
    /\ Len(Returned(1).genes) = 2
    /\ Returned(1).X # Returned(2).X
    /\ Returned(2).spatial = <<center(0), rotate(0)>>

\* slice has, in a column of one of the genes, a feature equal to -0.01
HasMinusHundredth(slice, genes) ==
    \E r \in DOMAIN slice.X, c \in DOMAIN slice.genes :
        slice.genes[c] \in genes /\ slice.X[r][c] = -1

\* the genes two slices share
Shared(slice1, slice2) == Range(slice1.genes) \cap Range(slice2.genes)

\* the feature cost of the k-th pair of the input is finite (features >= -0.01)
PairFinite(k) ==
    LET slice1 == stack.heap0[stack.input[k]]
        slice2 == stack.heap0[stack.input[k + 1]]
    IN  /\ ~HasMinusHundredth(slice1, Shared(slice1, slice2))
        /\ ~HasMinusHundredth(slice2, Shared(slice1, slice2))

HasDerived(slice) == slice.obs # {} \/ "z" \in slice.cols

\* C18 as stated: whenever slice_alignment raises, the list holds the objects
\* it held before the call and no slice carries derived coordinate fields.
C18_RaiseLeavesListUntouched ==
    (stack.fn = "slice_alignment" /\ stack.pc = "raised") =>
        /\ stack.slicesList = stack.input
        /\ \A o \in 1..Len(stack.heap) : ~HasDerived(stack.heap[o])

\* C18 amended: only a solver failure leaves the list untouched. The aligner
\* runs on every pair before anything is changed, so a plan exists only for
\* pairs with a finite cost and a solver failure leaves list and slices as
\* they were. An identifier without section index is found after the
\* superpositions: with two or more slices every entry is then already
\* replaced by an aligned copy, the slices before the offending one carry z
\* and the derived fields, and no file is written; with one slice nothing has
\* changed. A failed write leaves every entry aligned and carrying the
\* derived fields, and the files of the slices before it written.
C18_OnlySolverFailureIsClean ==
    stack.fn = "slice_alignment" =>
        /\ \A k \in 1..Len(stack.piList) : PairFinite(k)
        /\ (stack.pc = "raised" /\ exc = "NumericalError") =>
              /\ stack.slicesList = stack.input
              /\ stack.heap = stack.heap0
              /\ ~PairFinite(Len(stack.piList) + 1)
              /\ stack.files = {}
        /\ (stack.pc = "raised" /\ exc = "IndexError") =>
              /\ stack.files = {}
              /\ Listed(stack.i).slice_ID.section < 0
              /\ \A k \in 1..Len(stack.slicesList) :
                    /\ HasDerived(Listed(k)) <=> k < stack.i
                    /\ Len(stack.input) >= 2 =>
                          (stack.slicesList[k] > Len(stack.heap0) /\ Listed(k).spatial # <<>>)
                    /\ Len(stack.input) = 1 => stack.heap = stack.heap0
        /\ (stack.pc = "raised" /\ exc = "OSError") =>
              /\ stack.nwrites = stack.i - 1
              /\ stack.files = {Listed(k).slice_ID : k \in 1..(stack.i - 1)}
              /\ \A k \in 1..Len(stack.slicesList) :
                    /\ HasDerived(Listed(k))
                    /\ Len(stack.input) >= 2 => stack.slicesList[k] > Len(stack.heap0)

C18_Witness ==
    /\ stack.fn = "slice_alignment"
    /\ stack.pc = "raised"
    /\ exc = "IndexError"
    /\ Len(stack.input) = 3
    /\ stack.i = 2
    /\ HasDerived(Listed(1))
    /\ stack.slicesList[3] # stack.input[3]

\* C20: a layer overwritten by refine_alignment keeps the shape it had before
\* the call, for both refiner variants: the transform of an (H, W) array with
\* train = False has shape (H, W).
C20_TransformKeepsShape ==
    drv.pc \in {"layers", "done"} =>
        \A n \in DOMAIN adata.layers \cap DOMAIN drv.adata0.layers :
            adata.layers[n].shape = drv.adata0.layers[n].shape

Aligning == stack.fn \in {"pairwise_align1", "pairwise_align2"}

N1 == Len(stack.slice1.X)

N2 == Len(stack.slice2.X)

\* P is an n1 x n2 plan in whole units with entries >= 0, every row summing
\* to 1 / n1 and every column to 1 / n2
UniformPlan(P, n1, n2) ==
    /\ DOMAIN P = 1..n1
    /\ \A i \in 1..n1 :
          /\ DOMAIN P[i] = 1..n2
          /\ \A j \in 1..n2 : P[i][j] >= 0
          /\ n1 * SumSeq(P[i]) = PlanUnits(n1, n2)
    /\ \A j \in 1..n2 : n2 * SumSeq([i \in 1..n1 |-> P[i][j]]) = PlanUnits(n1, n2)

\* C15: on both aligner paths the plan the solver holds, and the plan
\* returned for slices of N1 and N2 points, is N1 x N2 with entries >= 0, row
\* sums 1/N1 and column sums 1/N2.
C15_PlanHasUniformMarginals ==
    Aligning =>
        /\ stack.pc = "cg" => UniformPlan(stack.G, N1, N2)
        /\ stack.pc = "done" => UniformPlan(stack.pi, N1, N2)

C15_Witness ==
    /\ stack.fn = "pairwise_align2"
    /\ stack.pc = "done"
    /\ N1 = 2
    /\ N2 = 2
    /\ stack.it >= 1
    /\ 8 * stack.pi[1][1] = 3 * PlanUnits(2, 2)
    /\ UniformPlan(stack.pi, N1, N2)

\* C16: for the slices, alpha and iteration caps of any aligner call, the
\* problem pairwise_align2 hands to the solver is the one the solver works
\* on for pairwise_align1: the same common genes and feature cost scaled by
\* (1 - alpha), the same distance matrices, the same structural weight alpha,
\* the same uniform marginals and the same initial plan p q^T; the call's
\* solver run is on that problem whichever path was taken.
C16_SameProblemOnBothPaths ==
    (Aligning /\ stack.pc \in {"cg", "done", "raised"}) =>
        LET caps == stack.problem
            cpu == Problem1(stack.slice1, stack.slice2, stack.alpha,
                            caps.numItermax, caps.numItermaxEmd)
            gpu == Problem2(stack.slice1, stack.slice2, stack.alpha,
                            caps.numItermax, caps.numItermaxEmd)
        IN  /\ cpu = gpu
            /\ stack.problem = gpu
            /\ DOMAIN gpu.M.of.X[1] = DOMAIN common_genes(stack.slice1, stack.slice2)
            /\ gpu.M.factor = 100 - stack.alpha
            /\ gpu.reg = stack.alpha
            /\ gpu.C1 = distance_matrix(stack.slice1.spatial, stack.slice1.spatial)
            /\ gpu.C2 = distance_matrix(stack.slice2.spatial, stack.slice2.spatial)
            /\ gpu.a = [k \in 1..N1 |-> <<1, N1>>]
            /\ gpu.b = [k \in 1..N2 |-> <<1, N2>>]
            /\ gpu.G0 = [i \in 1..N1 |-> [j \in 1..N2 |-> <<1, N1 * N2>>]]

C16_Witness ==
    /\ stack.fn = "pairwise_align2"
    /\ stack.pc = "done"
    /\ stack.alpha = 10
    /\ stack.problem.M.factor = 90
    /\ N1 = 2
    /\ N2 = 1
    /\ common_genes(stack.slice1, stack.slice2) = <<"b">>
    /\ stack.problem = Problem1(stack.slice1, stack.slice2, stack.alpha,
                                stack.problem.numItermax, stack.problem.numItermaxEmd)

HasZeroRow(slice) ==
    \E r \in DOMAIN slice.X : \A c \in DOMAIN slice.X[r] : slice.X[r][c] = 0

\* some feature of the common genes of the call's slices is -0.01
CallHasMinusHundredth ==
    \/ HasMinusHundredth(stack.slice1, Shared(stack.slice1, stack.slice2))
    \/ HasMinusHundredth(stack.slice2, Shared(stack.slice1, stack.slice2))

\* C17 as stated: a call on a slice with an all-zero feature row ends with a
\* numerical error and returns no correspondence matrix.
C17_ZeroRowFails ==
    (Aligning /\ (HasZeroRow(stack.slice1) \/ HasZeroRow(stack.slice2))) =>
        stack.pc = "raised"

\* C17 amended: the aligner ends with a numerical error exactly when the
\* feature cost has a non-finite entry, which for features >= -0.01 means that
\* a feature of a common gene is -0.01; an all-zero feature row is not such an
\* input, because 0.01 is added to every feature before the rows are
\* normalised, and a call on slices with all-zero rows returns a plan. Beyond
\* this smoothing the features reach the cost as they are.
C17_OnlyNonFiniteCostFails ==
    Aligning =>
        /\ stack.pc = "raised" =>
              (exc = "NumericalError" /\ CallHasMinusHundredth /\ stack.pi = <<>>)
        /\ stack.pc \in {"cg", "done"} => ~CallHasMinusHundredth
        /\ stack.pc = "done" => stack.pi # <<>>
        /\ stack.pc \in {"cg", "done", "raised"} =>
              LET genes == common_genes(stack.slice1, stack.slice2)
                  sub1 == SubsetGenes(stack.slice1, genes)
                  sub2 == SubsetGenes(stack.slice2, genes)
                  D == stack.problem.M.of
              IN  /\ \A r \in DOMAIN D.X : \A c \in DOMAIN D.X[r] :
                        D.X[r][c] = sub1.X[r][c] + 1
                  /\ \A r \in DOMAIN D.Y : \A c \in DOMAIN D.Y[r] :
                        D.Y[r][c] = sub2.X[r][c] + 1

C17_Witness ==
    /\ stack.fn = "pairwise_align1"
    /\ stack.pc = "done"
    /\ HasZeroRow(stack.slice1)
    /\ HasZeroRow(stack.slice2)
    /\ Len(common_genes(stack.slice1, stack.slice2)) = 2
    /\ stack.pi # <<>>

\* C21: the arrays returned by get_params(train=False) keep, whatever train
\* calls follow on the same refiner, the values they had when returned, and
\* get_params(train=True) returns the live parameter tensors.
C21_ReturnedArraysFrozen ==
    /\ ret.type = "ndarray" => Value(ret) = ret.atReturn
    /\ ret.type = "Tensor" => Value(ret) = Param(refiner)

\* no train call is running on the refiner
Idle == call.pc \in {"none", "returned"}

\* C22: the loss history accumulates over the train calls of a refiner and is
\* never reset: entry k (0-based) is the loss at the parameters after exactly
\* k updates, so entry 0 is the loss of the initial parameters; a call of N
\* epochs that returns has added N entries to those it found, after calls
\* totalling K epochs the history has K entries and the parameters K updates,
\* the loss of the final parameters is not recorded, and while K = 0 the
\* history has no loss entry.
C22_HistoryAccumulates ==
    /\ \A k \in 1..Len(refiner.history) : refiner.history[k].at = k - 1
    /\ refiner.hasLoss <=> Len(refiner.history) > 0
    /\ call.pc # "none" => call.hist0 = call.steps0
    /\ call.pc = "returned" => Len(refiner.history) = call.hist0 + call.n_epochs
    /\ (Idle /\ ctor.pc = "done") =>
          /\ Len(refiner.history) = Param(refiner).steps
          /\ \A k \in 1..Len(refiner.history) :
                refiner.history[k].at < Param(refiner).steps
    /\ (ctor.pc = "done" /\ ~Idle) =>
          Len(refiner.history) - Param(refiner).steps \in {0, 1}

C22_Witness ==
    /\ ncalls = 2
    /\ call.pc = "returned"
    /\ call.hist0 = 2
    /\ call.n_epochs = 1
    /\ Len(refiner.history) = 3
    /\ refiner.history[3].at = 2
    /\ Param(refiner).steps = 3

====
